---- MODULE Spec2Model ----
(***************************************************************************)
(* image-to-scan (src/image_to_scan/core.py): four point document          *)
(* transform.  The module models                                           *)
(*   - order_points and four_point_transform on integer pixel corners,     *)
(*   - findLargestCountours and the candidate handling of convert_object,  *)
(*   - save_image's derivation of the output path and main's file loop.    *)
(* Pixel coordinates are integers (cv2.approxPolyDP returns int32 points), *)
(* so x+y, y-x and the squared edge lengths are exact; int(np.sqrt(n)) is  *)
(* the integer square root for every n the model reaches (float32 holds    *)
(* integers below 2^24 exactly and its square root is correctly rounded).  *)
(***************************************************************************)
EXTENDS Integers, Sequences, FiniteSets, TLC

VARIABLES
    pc,             \* position of the modelled call
    countours,      \* the contours cv2.findContours returned for the image
    builtList,      \* screenCntList as the loop of lines 204-215 built it
    builtWidths,    \* scrWidths as the loop of lines 204-215 built it
    screenCntList,  \* screenCntList after line 223 (newCntList)
    scrWidths,      \* scrWidths after line 223 (newCntWidths)
    poolList,       \* cntList after the two pops of findLargestCountours
    poolWidths,     \* cntWidths after the two pops of findLargestCountours
    pts,            \* the four points handed to order_points
    rect,           \* order_points' result
    dsize,          \* (maxWidth, maxHeight) handed to cv2.warpPerspective
    dst,            \* the destination corners of four_point_transform
    warped,         \* size of the raster cv2.warpPerspective returned
    ret,            \* what the call returned: None, an image, or it raised
    ext,            \* main: the validated --extension argument
    todo,           \* main: files of FILES not yet processed
    fpath,          \* per invocation: file_path
    ipc,            \* per invocation: position in convert_object
    img,            \* per invocation: the image cv2.imread returned
    outc,           \* per invocation: outcome of convert_object
    raster,         \* per invocation: the enhanced raster (warp)
    savedTo,        \* per invocation: new_file_path handed to cv2.imwrite
    fs              \* the file system: path -> content

pipeVars == <<pc, countours, builtList, builtWidths, screenCntList, scrWidths,
              poolList, poolWidths, pts, rect, dsize, dst, warped, ret>>
ioVars == <<ext, todo, fpath, ipc, img, outc, raster, savedTo, fs>>
vars == <<pipeVars, ioVars>>

Procs == {1, 2}

(***************************************************************************)
(* Bounds of the model.                                                    *)
(***************************************************************************)
MaxContours == 4
MaxCoord == 2
MaxPathLen == 5
MaxFiles == 2
MaxArgLen == 3

(***************************************************************************)
(* Sequence helpers (Python list operations).                              *)
(***************************************************************************)
SeqsUpTo(S, n) == UNION {[1..k -> S] : k \in 0..n}

\* list.pop(i), 1-based
Pop(s, i) == SubSeq(s, 1, i - 1) \o SubSeq(s, i + 1, Len(s))

\* max(list) of a non-empty list
MaxOf(s) == CHOOSE m \in {s[i] : i \in 1..Len(s)} :
                \A j \in 1..Len(s) : s[j] <= m

\* list.index(v): the first position holding v
RECURSIVE IndexFrom(_, _, _)
IndexFrom(s, v, i) == IF s[i] = v THEN i ELSE IndexFrom(s, v, i + 1)

Index(s, v) == IndexFrom(s, v, 1)

(***************************************************************************)
(* order_points (lines 34-55).  A point is <<x, y>>; pts is a 4-tuple.     *)
(***************************************************************************)
\* the left-to-right scan of np.argmin / np.argmax: i is the next position,
\* best the position kept so far
RECURSIVE ArgMinFrom(_, _, _)
ArgMinFrom(v, i, best) ==
    IF i > Len(v) THEN best
    ELSE ArgMinFrom(v, i + 1, IF v[i] < v[best] THEN i ELSE best)

RECURSIVE ArgMinLastFrom(_, _, _)
ArgMinLastFrom(v, i, best) ==
    IF i > Len(v) THEN best
    ELSE ArgMinLastFrom(v, i + 1, IF v[i] <= v[best] THEN i ELSE best)

RECURSIVE ArgMaxFrom(_, _, _)
ArgMaxFrom(v, i, best) ==
    IF i > Len(v) THEN best
    ELSE ArgMaxFrom(v, i + 1, IF v[i] > v[best] THEN i ELSE best)

\* a scan that keeps the last of equal minima
np_argmin_last(v) == ArgMinLastFrom(v, 2, 1)

\* np.argmin: the first position of the minimum
np_argmin(v) == ArgMinFrom(v, 2, 1)

\* np.argmax: the first position of the maximum
np_argmax(v) == ArgMaxFrom(v, 2, 1)

order_points(p) ==
    LET s == [i \in 1..4 |-> p[i][1] + p[i][2]]       \* pts.sum(axis=1)
        diff == [i \in 1..4 |-> p[i][2] - p[i][1]]    \* np.diff(pts, axis=1)
    IN  << p[np_argmin(s)],       \* rect[0]
           p[np_argmin(diff)],    \* rect[1]
           p[np_argmax(s)],       \* rect[2]
           p[np_argmax(diff)] >>  \* rect[3]

(***************************************************************************)
(* four_point_transform (lines 59-103).                                    *)
(***************************************************************************)
\* int(np.sqrt(n)) for an integer n >= 0
IntSqrt(n) == CHOOSE r \in 0..n : r * r <= n /\ (r + 1) * (r + 1) > n

\* int(np.sqrt((a[0]-b[0])**2 + (a[1]-b[1])**2))
IntDist(a, b) ==
    IntSqrt((a[1] - b[1]) * (a[1] - b[1]) + (a[2] - b[2]) * (a[2] - b[2]))

\* the smaller of the two
Min2(a, b) == IF a <= b THEN a ELSE b

\* max(a, b)
Max2(a, b) == IF a >= b THEN a ELSE b

\* cv2.warpPerspective(image, M, dsize) allocates its result as dsize, or as
\* the source's size when dsize is empty (a width or height <= 0)
warpPerspective(srcSize, d) == IF d[1] <= 0 \/ d[2] <= 0 THEN srcSize ELSE d

four_point_transform(imageSize, p) ==
    LET r == order_points(p)
        tl == r[1]
        tr == r[2]
        br == r[3]
        bl == r[4]
        maxWidth == Max2(IntDist(br, bl), IntDist(tr, tl))
        maxHeight == Max2(IntDist(tr, br), IntDist(tl, bl))
    IN  [rect |-> r,
         dsize |-> <<maxWidth, maxHeight>>,
         dst |-> << <<0, 0>>, <<maxWidth - 1, 0>>,
                    <<maxWidth - 1, maxHeight - 1>>, <<0, maxHeight - 1>> >>,
         warped |-> warpPerspective(imageSize, <<maxWidth, maxHeight>>)]

(***************************************************************************)
(* findLargestCountours (lines 108-136).  max() of an empty list raises    *)
(* ValueError; the record says whether the call raised and holds the four  *)
(* lists as the call left them.                                            *)
(***************************************************************************)
\* a position of the maximum other than list.index's: the last one
IndexOfMaxLast(ws) ==
    CHOOSE i \in 1..Len(ws) :
        ws[i] = MaxOf(ws) /\ \A j \in (i + 1)..Len(ws) : ws[j] # ws[i]

\* cntWidths.index(max(cntWidths))
IndexOfMax(ws) == Index(ws, MaxOf(ws))

findLargestCountours(cntList, cntWidths) ==
    IF cntWidths = <<>>
    THEN [raised |-> TRUE, newCntList |-> <<>>, newCntWidths |-> <<>>,
          cntList |-> cntList, cntWidths |-> cntWidths]
    ELSE
      LET p1 == IndexOfMax(cntWidths)
          l1 == Pop(cntList, p1)
          w1 == Pop(cntWidths, p1)
      IN  IF w1 = <<>>
          THEN [raised |-> TRUE, newCntList |-> <<cntList[p1]>>,
                newCntWidths |-> <<cntWidths[p1]>>,
                cntList |-> l1, cntWidths |-> w1]
          ELSE
            LET p2 == IndexOfMax(w1)
            IN  [raised |-> FALSE,
                 newCntList |-> <<cntList[p1], l1[p2]>>,
                 newCntWidths |-> <<cntWidths[p1], w1[p2]>>,
                 cntList |-> Pop(l1, p2), cntWidths |-> Pop(w1, p2)]

(***************************************************************************)
(* convert_object, lines 201-221: the contours sorted by area (descending, *)
(* stable) and the loop that keeps the four-vertex approximations.  A      *)
(* contour is [area, width, approx]: cv2.contourArea, the W of             *)
(* cv2.boundingRect and the vertices of cv2.approxPolyDP.  A kept          *)
(* candidate is [idx, approx], idx its position in cnts.                   *)
(***************************************************************************)
RECURSIVE InsertByArea(_, _)
InsertByArea(s, x) ==
    IF s = <<>> THEN <<x>>
    ELSE IF Head(s).area >= x.area
         THEN <<Head(s)>> \o InsertByArea(Tail(s), x)
         ELSE <<x>> \o s

RECURSIVE SortedByArea(_)
SortedByArea(s) ==
    IF s = <<>> THEN <<>>
    ELSE InsertByArea(SortedByArea(SubSeq(s, 1, Len(s) - 1)), s[Len(s)])

RECURSIVE ApproxLoop(_, _, _, _)
ApproxLoop(cnts, i, lst, ws) ==
    IF i > Len(cnts) THEN [list |-> lst, widths |-> ws]
    ELSE IF Len(cnts[i].approx) = 4
         THEN ApproxLoop(cnts, i + 1,
                         Append(lst, [idx |-> i, approx |-> cnts[i].approx]),
                         Append(ws, cnts[i].width))
         ELSE ApproxLoop(cnts, i + 1, lst, ws)

Candidates(cs) == ApproxLoop(SortedByArea(cs), 1, <<>>, <<>>)

\* a width check that lets every pair pass
WidthsAnyway(ws) == TRUE

\* line 229: the two kept widths are equal
WidthsAgree(ws) == ws[1] = ws[2]

(***************************************************************************)
(* Files.  A path is a sequence of tokens: "/" , "." and names; the pattern *)
(* of save_image tells "." from every other character only.  A             *)
(* file's content is a photo (what cv2.imread returns: its size and the    *)
(* contours cv2.findContours finds in it) or a written scan.               *)
(***************************************************************************)
Photo(name, size, cs) ==
    [kind |-> "photo", name |-> name, size |-> size, countours |-> cs,
     quad |-> <<>>]

ScanOf(image, t) ==
    [kind |-> "scan", name |-> image.name, size |-> t.warped,
     countours |-> <<>>, quad |-> t.rect]

NoImage == [kind |-> "none", name |-> "", size |-> <<>>, countours |-> <<>>,
            quad |-> <<>>]

NoFiles == [p \in {} |-> NoImage]

Write(fsys, path, content) ==
    [q \in DOMAIN fsys \cup {path} |-> IF q = path THEN content ELSE fsys[q]]

\* the extensions of main's schema (lines 288-310) the model uses
Extensions == {"jpg", "png"}

HasDot(path) == \E i \in 1..Len(path) : path[i] = "."

\* the pattern is a "." followed by anything up to the end of the string:
\* its leftmost match starts at the first "."
FirstDot(path) ==
    CHOOSE i \in 1..Len(path) :
        path[i] = "." /\ \A j \in 1..(i - 1) : path[j] # "."

\* a match that starts at the last "."
LastDot(path) ==
    CHOOSE i \in 1..Len(path) :
        path[i] = "." /\ \A j \in (i + 1)..Len(path) : path[j] # "."

\* re.sub(pattern, suffix + "." + extension, src_file_path), lines 153-157:
\* the match runs to the end of the path, so one match is replaced; a path
\* with no "." is returned as it is
new_file_path(src_file_path, suffix, extension) ==
    IF HasDot(src_file_path)
    THEN SubSeq(src_file_path, 1, FirstDot(src_file_path) - 1)
             \o <<suffix, ".", extension>>
    ELSE src_file_path

\* cv2.imwrite picks its encoder by the text after the last "." of the
\* path and raises when it knows none
HasWriter(path) ==
    /\ Len(path) >= 2
    /\ path[Len(path) - 1] = "."
    /\ path[Len(path)] \in Extensions

\* save_image (lines 139-158): the path it derives, whether cv2.imwrite
\* raised, and the file system after the call
save_image(fsys, src_file_path, image, suffix, extension) ==
    LET new == new_file_path(src_file_path, suffix, extension)
    IN  [path |-> new,
         raised |-> ~HasWriter(new),
         fs |-> IF HasWriter(new) THEN Write(fsys, new, image) ELSE fsys]

\* convert_object's default new_file_suffix (line 163)
new_file_suffix == "-scanned"

\* save_image's default extension (line 139), which line 270 leaves as it is
default_extension == "jpg"

(***************************************************************************)
(* Spec: one call convert_object(file_path) on a photo whose contours are  *)
(* drawn from ContourSet.  Debug display (is_debug) is off.                *)
(***************************************************************************)
\* approxPolyDP results: an upright rectangle, a thin kite traced top,
\* right, bottom, left, and a triangle
Rect4 == << <<0, 0>>, <<2, 0>>, <<2, 1>>, <<0, 1>> >>
Thin4 == << <<1, 0>>, <<2, 3>>, <<1, 6>>, <<0, 3>> >>
Tri3 == << <<0, 0>>, <<2, 0>>, <<0, 2>> >>

Approxes == {Rect4, Thin4, Tri3}
Areas == {10, 20}
Widths == {50, 80, 200}
\* cv2.boundingRect is called for four-vertex approximations only (line 212):
\* any other contour has no width.  The thin kite comes with one width.
ContourSet ==
    {c \in [area : Areas, width : Widths \cup {0}, approx : Approxes] :
        /\ c.width = 0 <=> Len(c.approx) # 4
        /\ c.approx = Thin4 => c.width = 200}

ImageSize == <<8, 9>>
ScanPath == <<"a", ".", "jpg">>

ThePhoto == Photo("photo", ImageSize, countours)

IdleIO ==
    /\ ext = default_extension
    /\ todo = 0
    /\ fpath = [i \in Procs |-> <<>>]
    /\ ipc = [i \in Procs |-> "idle"]
    /\ img = [i \in Procs |-> NoImage]
    /\ outc = [i \in Procs |-> "pending"]
    /\ raster = [i \in Procs |-> NoImage]
    /\ savedTo = [i \in Procs |-> <<>>]

Init ==
    /\ pc = "start"
    /\ countours \in SeqsUpTo(ContourSet, MaxContours)
    /\ builtList = <<>>
    /\ builtWidths = <<>>
    /\ screenCntList = <<>>
    /\ scrWidths = <<>>
    /\ poolList = <<>>
    /\ poolWidths = <<>>
    /\ pts = <<>>
    /\ rect = <<>>
    /\ dsize = <<>>
    /\ dst = <<>>
    /\ warped = <<>>
    /\ ret = "pending"
    /\ IdleIO
    /\ fs = Write(NoFiles, ScanPath, Photo("photo", ImageSize, countours))

\* lines 166-221: read, find the contours, sort them, keep the candidates
Detect ==
    /\ pc = "start"
    /\ builtList' = Candidates(countours).list
    /\ builtWidths' = Candidates(countours).widths
    /\ pc' = "detected"
    /\ UNCHANGED <<countours, screenCntList, scrWidths, poolList, poolWidths,
                   pts, rect, dsize, dst, warped, ret, ioVars>>

\* lines 223-230: findLargestCountours and the two tests on its result
Select ==
    /\ pc = "detected"
    /\ LET f == findLargestCountours(builtList, builtWidths)
       IN  /\ poolList' = f.cntList
           /\ poolWidths' = f.cntWidths
           /\ IF f.raised
              THEN /\ ret' = "raised"
                   /\ pc' = "done"
                   /\ UNCHANGED <<screenCntList, scrWidths>>
              ELSE /\ screenCntList' = f.newCntList
                   /\ scrWidths' = f.newCntWidths
                   /\ IF ~(Len(f.newCntList) >= 2)
                      THEN ret' = "None" /\ pc' = "done"
                      ELSE IF ~WidthsAgree(f.newCntWidths)
                           THEN ret' = "None" /\ pc' = "done"
                           ELSE ret' = ret /\ pc' = "selected"
    /\ UNCHANGED <<countours, builtList, builtWidths, pts, rect, dsize, dst,
                   warped, ioVars>>

\* lines 246-253: order_points and four_point_transform on the first kept
\* candidate
Rectify ==
    /\ pc = "selected"
    /\ pts' = screenCntList[1].approx
    /\ rect' = order_points(pts')
    /\ LET t == four_point_transform(ImageSize, pts')
       IN  /\ dsize' = t.dsize
           /\ dst' = t.dst
           /\ warped' = t.warped
    /\ pc' = "warped"
    /\ UNCHANGED <<countours, builtList, builtWidths, screenCntList,
                   scrWidths, poolList, poolWidths, ret, ioVars>>

\* lines 258-270: grayscale, CLAHE, save_image
Save ==
    /\ pc = "warped"
    /\ LET warp == ScanOf(ThePhoto, [warped |-> warped, rect |-> rect])
           w == save_image(fs, ScanPath, warp, new_file_suffix,
                           default_extension)
       IN  /\ savedTo' = [savedTo EXCEPT ![1] = w.path]
           /\ fs' = w.fs
           /\ IF w.raised
              THEN ret' = "raised" /\ pc' = "done"
              ELSE ret' = ret /\ pc' = "saved"
    /\ UNCHANGED <<countours, builtList, builtWidths, screenCntList,
                   scrWidths, poolList, poolWidths, pts, rect, dsize, dst,
                   warped, ext, todo, fpath, ipc, img, outc, raster>>

\* lines 272-277: the image is returned
Return ==
    /\ pc = "saved"
    /\ ret' = "image"
    /\ pc' = "done"
    /\ UNCHANGED <<countours, builtList, builtWidths, screenCntList,
                   scrWidths, poolList, poolWidths, pts, rect, dsize, dst,
                   warped, ioVars>>

Next == Detect \/ Select \/ Rectify \/ Save \/ Return

Spec == Init /\ [][Next]_vars

(***************************************************************************)
(* Claims about convert_object, checked under Spec.                        *)
(***************************************************************************)
\* the four-vertex polygons of the input, and how many of them have the
\* largest width
QuadIdx == {i \in 1..Len(countours) : Len(countours[i].approx) = 4}

TopCount ==
    Cardinality({i \in QuadIdx :
                    \A j \in QuadIdx : countours[j].width <= countours[i].width})

InitialFs == Write(NoFiles, ScanPath, ThePhoto)

NothingWritten == fs = InitialFs /\ savedTo[1] = <<>>

NothingRectified == pts = <<>> /\ rect = <<>> /\ dsize = <<>> /\ warped = <<>>

\* C1: with 0 or 1 four-vertex polygons the call ends normally with None:
\* it does not raise and writes no file.
C1_FewCandidatesNotFound ==
    (pc = "done" /\ Cardinality(QuadIdx) <= 1)
        => (ret = "None" /\ NothingWritten)

\* C2: with at least 2 four-vertex polygons whose largest width occurs once
\* (the two kept widths differ), the call returns None straight after the
\* selection: no ordering, no rectification, no second selection over the
\* remaining candidates, no file.
C2_UnequalWidthsNotFound ==
    (Cardinality(QuadIdx) >= 2 /\ TopCount = 1 /\ pc \notin {"start", "detected"})
        => /\ pc = "done"
           /\ ret = "None"
           /\ NothingRectified
           /\ NothingWritten
           /\ Len(screenCntList) = 2
           /\ Len(poolList) = Len(builtList) - 2

C2_Witness ==
    /\ pc = "done"
    /\ ret = "None"
    /\ builtWidths = <<80, 200, 50>>
    /\ scrWidths = <<200, 80>>

\* C3: with at least 2 four-vertex polygons whose largest width occurs at
\* least twice, the call goes on and returns the image; the rectified
\* quadrilateral is the first candidate (in the order of the candidate list)
\* of the largest width, the second kept one is the next candidate of that
\* width, and the pool keeps all others in their order.
FirstTop ==
    CHOOSE i \in 1..Len(builtWidths) :
        /\ \A j \in 1..Len(builtWidths) : builtWidths[j] <= builtWidths[i]
        /\ \A j \in 1..(i - 1) : builtWidths[j] < builtWidths[i]

SecondTop ==
    CHOOSE i \in (FirstTop + 1)..Len(builtWidths) :
        /\ builtWidths[i] = builtWidths[FirstTop]
        /\ \A j \in (FirstTop + 1)..(i - 1) : builtWidths[j] < builtWidths[i]

C3_EqualWidthsRectifyFirst ==
    (Cardinality(QuadIdx) >= 2 /\ TopCount >= 2 /\ pc \notin {"start", "detected"})
        => /\ screenCntList = <<builtList[FirstTop], builtList[SecondTop]>>
           /\ scrWidths = <<builtWidths[FirstTop], builtWidths[SecondTop]>>
           /\ Len(poolList) = Len(builtList) - 2
           /\ \A a \in 1..Len(poolList) :
                 /\ \E k \in 1..Len(builtList) :
                       k \notin {FirstTop, SecondTop} /\ poolList[a] = builtList[k]
                 /\ \A b \in (a + 1)..Len(poolList) :
                       poolList[a].idx < poolList[b].idx
           /\ pc \in {"warped", "saved", "done"}
                 => pts = builtList[FirstTop].approx
           /\ pc = "done"
                 => /\ ret = "image"
                    /\ savedTo[1] \in DOMAIN fs
                    /\ fs[savedTo[1]].kind = "scan"
                    /\ fs[savedTo[1]].quad = rect
           /\ pc # "done" => ret = "pending"

C3_Witness ==
    /\ pc = "done"
    /\ ret = "image"
    /\ builtWidths = <<50, 200, 200, 80>>
    /\ screenCntList[1].idx = builtList[2].idx
    /\ screenCntList[2].idx = builtList[3].idx
    /\ poolWidths = <<50, 80>>
    /\ builtList[2].approx # builtList[3].approx

\* C6: when the destination width or height computed for the selected
\* quadrilateral is 0, the call returns None: no warp with a zero
\* dimension, no exception, no file.
C6_DegenerateNotFound ==
    (pc = "done" /\ Len(dsize) = 2 /\ (dsize[1] = 0 \/ dsize[2] = 0))
        => (ret = "None" /\ warped = <<>> /\ NothingWritten)

(***************************************************************************)
(* SpecGeom: order_points, then four_point_transform, called on four       *)
(* points in any order: every 4-tuple of grid points, and every order of   *)
(* the corners of two named quadrilaterals.                                *)
(***************************************************************************)
GridPoints == (0..MaxCoord) \X (0..MaxCoord)

DocRect == << <<10, 10>>, <<110, 10>>, <<110, 60>>, <<10, 60>> >>
Diamond == << <<0, 5>>, <<5, 0>>, <<10, 5>>, <<5, 10>> >>

Orders(q) == {[i \in 1..4 |-> q[f[i]]] : f \in Permutations(1..4)}

PointInputs == [1..4 -> GridPoints] \cup Orders(DocRect) \cup Orders(Diamond)

InitGeom ==
    /\ pc = "points"
    /\ pts \in PointInputs
    /\ countours = <<>>
    /\ builtList = <<>>
    /\ builtWidths = <<>>
    /\ screenCntList = <<>>
    /\ scrWidths = <<>>
    /\ poolList = <<>>
    /\ poolWidths = <<>>
    /\ rect = <<>>
    /\ dsize = <<>>
    /\ dst = <<>>
    /\ warped = <<>>
    /\ ret = "pending"
    /\ IdleIO
    /\ fs = NoFiles

\* rect = order_points(pts)
CallOrderPoints ==
    /\ pc = "points"
    /\ rect' = order_points(pts)
    /\ pc' = "ordered"
    /\ UNCHANGED <<countours, builtList, builtWidths, screenCntList,
                   scrWidths, poolList, poolWidths, pts, dsize, dst, warped,
                   ret, ioVars>>

\* warped = four_point_transform(image, pts)
CallFourPointTransform ==
    /\ pc = "ordered"
    /\ LET t == four_point_transform(ImageSize, pts)
       IN  /\ dsize' = t.dsize
           /\ dst' = t.dst
           /\ warped' = t.warped
    /\ pc' = "transformed"
    /\ UNCHANGED <<countours, builtList, builtWidths, screenCntList,
                   scrWidths, poolList, poolWidths, pts, rect, ret, ioVars>>

NextGeom == CallOrderPoints \/ CallFourPointTransform

SpecGeom == InitGeom /\ [][NextGeom]_vars

Sum(p) == p[1] + p[2]
Diff(p) == p[2] - p[1]

\* the lowest input position whose key is the least (greatest) one
LowestLeast(key(_)) ==
    CHOOSE i \in 1..4 :
        /\ \A j \in 1..4 : key(pts[i]) <= key(pts[j])
        /\ \A j \in 1..(i - 1) : key(pts[j]) # key(pts[i])

LowestGreatest(key(_)) ==
    CHOOSE i \in 1..4 :
        /\ \A j \in 1..4 : key(pts[i]) >= key(pts[j])
        /\ \A j \in 1..(i - 1) : key(pts[j]) # key(pts[i])

PointSet(q) == {q[i] : i \in 1..4}

\* pts holds the corners of an axis-aligned square, each once
IsSquare ==
    LET xs == {pts[i][1] : i \in 1..4}
        ys == {pts[i][2] : i \in 1..4}
    IN  /\ Cardinality(xs) = 2
        /\ Cardinality(ys) = 2
        /\ PointSet(pts) = xs \X ys
        /\ \E a \in xs, b \in xs, c \in ys, d \in ys :
              a < b /\ c < d /\ b - a = d - c

SquareCorners ==
    LET xs == {pts[i][1] : i \in 1..4}
        ys == {pts[i][2] : i \in 1..4}
        x0 == CHOOSE a \in xs : \A b \in xs : a <= b
        x1 == CHOOSE a \in xs : \A b \in xs : a >= b
        y0 == CHOOSE c \in ys : \A d \in ys : c <= d
        y1 == CHOOSE c \in ys : \A d \in ys : c >= d
    IN  << <<x0, y0>>, <<x1, y0>>, <<x1, y1>>, <<x0, y1>> >>

\* C4: order_points puts in slot 0 the input point of least x+y, in slot 2
\* the one of greatest x+y, in slot 1 the one of least y-x and in slot 3
\* the one of greatest y-x, the lowest input position winning a tie; the
\* corners of an axis-aligned square, in any of their orders, come out as
\* (top-left, top-right, bottom-right, bottom-left).
C4_OrderPointsSlots ==
    pc \in {"ordered", "transformed"}
        => /\ Len(rect) = 4
           /\ rect[1] = pts[LowestLeast(Sum)]
           /\ rect[3] = pts[LowestGreatest(Sum)]
           /\ rect[2] = pts[LowestLeast(Diff)]
           /\ rect[4] = pts[LowestGreatest(Diff)]
           /\ IsSquare => rect = SquareCorners

C4_Witness ==
    /\ pc = "ordered"
    /\ pts = << <<1, 0>>, <<0, 1>>, <<2, 1>>, <<1, 2>> >>
    /\ rect = << <<1, 0>>, <<1, 0>>, <<2, 1>>, <<0, 1>> >>

\* the squared length of the edge from a to b, and the floor of the square
\* root of the larger of two squared lengths
SqLen(a, b) == (a[1] - b[1]) * (a[1] - b[1]) + (a[2] - b[2]) * (a[2] - b[2])

FloorRootOfMax(m, n) ==
    CHOOSE r \in 0..(m + n) :
        /\ r * r <= m \/ r * r <= n
        /\ (r + 1) * (r + 1) > m /\ (r + 1) * (r + 1) > n

destWidth == FloorRootOfMax(SqLen(rect[2], rect[1]), SqLen(rect[3], rect[4]))
destHeight == FloorRootOfMax(SqLen(rect[1], rect[4]), SqLen(rect[2], rect[3]))

Cross(o, a, b) ==
    (a[1] - o[1]) * (b[2] - o[2]) - (a[2] - o[2]) * (b[1] - o[1])

\* p lies strictly inside the triangle a, b, c
InTriangle(p, a, b, c) ==
    \/ Cross(a, b, p) > 0 /\ Cross(b, c, p) > 0 /\ Cross(c, a, p) > 0
    \/ Cross(a, b, p) < 0 /\ Cross(b, c, p) < 0 /\ Cross(c, a, p) < 0

\* pts are four distinct points, no three on a line and none inside the
\* triangle of the others: the vertices of a convex quadrilateral
ConvexQuad ==
    /\ Cardinality(PointSet(pts)) = 4
    /\ \A i \in 1..4, j \in 1..4, k \in 1..4 :
          (i < j /\ j < k) => Cross(pts[i], pts[j], pts[k]) # 0
    /\ \A i \in 1..4 :
          \A j \in 1..4, k \in 1..4, l \in 1..4 :
              ({i, j, k, l} = 1..4 /\ j < k /\ k < l)
                  => ~InTriangle(pts[i], pts[j], pts[k], pts[l])

C10_OrderIsPermutation ==
    (pc = "ordered" /\ ConvexQuad) => PointSet(rect) = PointSet(pts)

(***************************************************************************)
(* Calls of convert_object as steps over the file system: cv2.imread       *)
(* (line 166), the computation on the image read (lines 173-262, which     *)
(* touches nothing but locals), save_image (line 270) and the return.      *)
(***************************************************************************)
\* lines 173-262 on the image read: what the call returns, and the raster
\* it is about to save
Converted(image) ==
    LET c == Candidates(image.countours)
        f == findLargestCountours(c.list, c.widths)
    IN  IF f.raised THEN [ret |-> "raised", warp |-> NoImage]
        ELSE IF ~(Len(f.newCntList) >= 2) THEN [ret |-> "None", warp |-> NoImage]
        ELSE IF ~WidthsAgree(f.newCntWidths)
             THEN [ret |-> "None", warp |-> NoImage]
             ELSE [ret |-> "image",
                   warp |-> ScanOf(image,
                                   four_point_transform(image.size,
                                       f.newCntList[1].approx))]

PathChars == {"/", ".", "a", "b"}

\* the part of a path after its last "/"
LastComponent(path) ==
    LET slashes == {i \in 1..Len(path) : path[i] = "/"}
        from == IF slashes = {} THEN 1
                ELSE 1 + CHOOSE i \in slashes : \A j \in slashes : j <= i
    IN  SubSeq(path, from, Len(path))

\* paths that can name a file: the last component is a name, not empty and
\* neither "." nor ".."
Paths(n) ==
    {p \in SeqsUpTo(PathChars, n) :
        LastComponent(p) \notin {<<>>, <<".">>, <<".", ".">>}}

\* photos: a document (two candidates of one width), clutter (two
\* candidates of different widths), and a photo with no contour
DocContours ==
    << [area |-> 20, width |-> 200, approx |-> Rect4],
       [area |-> 10, width |-> 200, approx |-> Rect4] >>

ClutterContours ==
    << [area |-> 20, width |-> 200, approx |-> Rect4],
       [area |-> 10, width |-> 80, approx |-> Rect4] >>

Photos(name) ==
    {Photo(name, ImageSize, cs) : cs \in {DocContours, ClutterContours, <<>>}}

IdlePipe ==
    /\ pc = "io"
    /\ countours = <<>>
    /\ builtList = <<>>
    /\ builtWidths = <<>>
    /\ screenCntList = <<>>
    /\ scrWidths = <<>>
    /\ poolList = <<>>
    /\ poolWidths = <<>>
    /\ pts = <<>>
    /\ rect = <<>>
    /\ dsize = <<>>
    /\ dst = <<>>
    /\ warped = <<>>
    /\ ret = "pending"

\* line 166: image = cv2.imread(file_path)
Imread(i) ==
    /\ ipc[i] = "call"
    /\ img' = [img EXCEPT ![i] = fs[fpath[i]]]
    /\ ipc' = [ipc EXCEPT ![i] = "read"]
    /\ UNCHANGED <<pipeVars, ext, todo, fpath, outc, raster, savedTo, fs>>

\* lines 173-262
Process(i) ==
    /\ ipc[i] = "read"
    /\ LET r == Converted(img[i])
       IN  IF r.ret = "image"
           THEN /\ raster' = [raster EXCEPT ![i] = r.warp]
                /\ ipc' = [ipc EXCEPT ![i] = "save"]
                /\ outc' = outc
           ELSE /\ outc' = [outc EXCEPT ![i] = r.ret]
                /\ ipc' = [ipc EXCEPT ![i] = "done"]
                /\ raster' = raster
    /\ UNCHANGED <<pipeVars, ext, todo, fpath, img, savedTo, fs>>

\* line 270: save_image(file_path, warp, suffix=new_file_suffix)
Imwrite(i) ==
    /\ ipc[i] = "save"
    /\ LET w == save_image(fs, fpath[i], raster[i], new_file_suffix,
                           default_extension)
       IN  /\ savedTo' = [savedTo EXCEPT ![i] = w.path]
           /\ fs' = w.fs
           /\ IF w.raised
              THEN /\ outc' = [outc EXCEPT ![i] = "raised"]
                   /\ ipc' = [ipc EXCEPT ![i] = "done"]
              ELSE /\ outc' = outc
                   /\ ipc' = [ipc EXCEPT ![i] = "return"]
    /\ UNCHANGED <<pipeVars, ext, todo, fpath, img, raster>>

\* lines 272-277
ReturnImage(i) ==
    /\ ipc[i] = "return"
    /\ outc' = [outc EXCEPT ![i] = "image"]
    /\ ipc' = [ipc EXCEPT ![i] = "done"]
    /\ UNCHANGED <<pipeVars, ext, todo, fpath, img, raster, savedTo, fs>>

(***************************************************************************)
(* SpecSave: one call convert_object(file_path), file_path any path.       *)
(***************************************************************************)
InitSave ==
    /\ IdlePipe
    /\ ext = default_extension
    /\ todo = 0
    /\ \E p \in Paths(MaxPathLen), ph \in Photos("photo") :
          /\ fpath = [i \in Procs |-> IF i = 1 THEN p ELSE <<>>]
          /\ fs = Write(NoFiles, p, ph)
    /\ ipc = [i \in Procs |-> IF i = 1 THEN "call" ELSE "idle"]
    /\ img = [i \in Procs |-> NoImage]
    /\ outc = [i \in Procs |-> "pending"]
    /\ raster = [i \in Procs |-> NoImage]
    /\ savedTo = [i \in Procs |-> <<>>]

NextSave == Imread(1) \/ Process(1) \/ Imwrite(1) \/ ReturnImage(1)

SpecSave == InitSave /\ [][NextSave]_vars

\* src_file_path ends in "<name>.<ext>": its last "." is followed by at least
\* one character, none of them a "/", and comes after a name character of
\* the same component
HasFinalExtension(path) ==
    /\ HasDot(path)
    /\ LastDot(path) < Len(path)
    /\ \A j \in LastDot(path)..Len(path) : path[j] # "/"
    /\ \E j \in 1..(LastDot(path) - 1) :
          /\ path[j] \notin {".", "/"}
          /\ \A k \in j..LastDot(path) : path[k] # "/"

\* the path with only its final ".<ext>" replaced by suffix, ".", extension
FinalExtensionReplaced(path, suffix, extension) ==
    SubSeq(path, 1, LastDot(path) - 1) \o <<suffix, ".", extension>>

\* a path with one ".", which starts its final extension
PlainPath(path) == HasFinalExtension(path) /\ FirstDot(path) = LastDot(path)

\* C8: save_image writes to the source path with only its final ".<ext>"
\* replaced by "<suffix>.<extension>", directory and base name unchanged,
\* also when a directory or the base name holds a "."; the path written is
\* never the source path.
C8_OnlyFinalExtensionReplaced ==
    (ipc[1] = "return" /\ HasFinalExtension(fpath[1]))
        => /\ savedTo[1] = FinalExtensionReplaced(fpath[1], new_file_suffix,
                                                  default_extension)
           /\ savedTo[1] # fpath[1]
           /\ savedTo[1] \in DOMAIN fs
           /\ fs[savedTo[1]] = raster[1]

(***************************************************************************)
(* SpecMain: main (lines 280-326) with a validated --extension and up to   *)
(* MaxFiles existing FILES, each drawn as the loop reaches it.  An         *)
(* exception of convert_object is not caught: it ends the loop.            *)
(***************************************************************************)
InitMain ==
    /\ IdlePipe
    /\ ext \in Extensions
    /\ todo \in 1..MaxFiles
    /\ fpath = [i \in Procs |-> <<>>]
    /\ ipc = [i \in Procs |-> "idle"]
    /\ img = [i \in Procs |-> NoImage]
    /\ outc = [i \in Procs |-> "pending"]
    /\ raster = [i \in Procs |-> NoImage]
    /\ savedTo = [i \in Procs |-> <<>>]
    /\ fs = NoFiles

\* lines 325-326: the next file_path of FILES, and the call
MainNextFile ==
    /\ ipc[1] \in {"idle", "done"}
    /\ outc[1] # "raised"
    /\ todo > 0
    /\ \E p \in Paths(MaxArgLen), ph \in Photos("photo") :
          /\ fpath' = [fpath EXCEPT ![1] = p]
          /\ fs' = IF p \in DOMAIN fs THEN fs ELSE Write(fs, p, ph)
    /\ todo' = todo - 1
    /\ ipc' = [ipc EXCEPT ![1] = "call"]
    /\ img' = [img EXCEPT ![1] = NoImage]
    /\ outc' = [outc EXCEPT ![1] = "pending"]
    /\ raster' = [raster EXCEPT ![1] = NoImage]
    /\ savedTo' = [savedTo EXCEPT ![1] = <<>>]
    /\ UNCHANGED <<pipeVars, ext>>

NextMain ==
    MainNextFile \/ Imread(1) \/ Process(1) \/ Imwrite(1) \/ ReturnImage(1)

SpecMain == InitMain /\ [][NextMain]_vars

\* C9: run with --extension=E, every output file written for a rectified
\* input has extension E (stated for inputs named <name>.<ext> with one "."
\* in the path, for which save_image replaces the final extension).
C9_OutputHasChosenExtension ==
    (ipc[1] = "return" /\ PlainPath(fpath[1]))
        => /\ savedTo[1] \in DOMAIN fs
           /\ fs[savedTo[1]].kind = "scan"
           /\ savedTo[1][Len(savedTo[1])] = ext

(***************************************************************************)
(* SpecConc: two calls of convert_object on two different files, their     *)
(* steps interleaved in any order.                                         *)
(***************************************************************************)
InitConc ==
    /\ IdlePipe
    /\ ext = default_extension
    /\ todo = 0
    /\ \E p \in Paths(MaxArgLen), q \in Paths(MaxArgLen),
          ph \in Photos("photo1"), qh \in Photos("photo2") :
          /\ p # q
          /\ fpath = [i \in Procs |-> IF i = 1 THEN p ELSE q]
          /\ fs = Write(Write(NoFiles, p, ph), q, qh)
    /\ ipc = [i \in Procs |-> "call"]
    /\ img = [i \in Procs |-> NoImage]
    /\ outc = [i \in Procs |-> "pending"]
    /\ raster = [i \in Procs |-> NoImage]
    /\ savedTo = [i \in Procs |-> <<>>]

NextConc ==
    \E i \in Procs : Imread(i) \/ Process(i) \/ Imwrite(i) \/ ReturnImage(i)

SpecConc == InitConc /\ [][NextConc]_vars

\* what one call returns when it runs alone on its file
AloneReturns(path, image) ==
    LET r == Converted(image)
    IN  IF r.ret = "image"
           /\ save_image(NoFiles, path, r.warp, new_file_suffix,
                         default_extension).raised
        THEN "raised"
        ELSE r.ret

\* C7: two calls on two different files, interleaved in any way, each
\* return what they return alone and leave the output file they leave
\* alone: neither writes a path the other reads or writes (stated for
\* inputs named <name>.<ext> with one "." in the path).
C7_CallsIndependent ==
    (ipc[1] = "done" /\ ipc[2] = "done"
        /\ PlainPath(fpath[1]) /\ PlainPath(fpath[2]))
        => \A i \in Procs :
              /\ outc[i] = AloneReturns(fpath[i], img[i])
              /\ outc[i] = "image"
                    => /\ savedTo[i] \in DOMAIN fs
                       /\ fs[savedTo[i]] = Converted(img[i]).warp
                       /\ \A j \in Procs \ {i} :
                             savedTo[i] \notin {fpath[j], savedTo[j]}

====
